---- MODULE Spec2Model ----
(***************************************************************************)
(* Model of the officially maintained postprocessors of obsidian-export    *)
(* (src/src/postprocessors.rs): the line-break normalizer, the tag filter, *)
(* the table-of-contents remover and the Obsidian comment stripper.        *)
(*                                                                         *)
(* Strings that the code only compares for equality (tag names, code-block *)
(* labels) are TLA+ strings.  The text of a Text event is a sequence of    *)
(* one-character strings, because the comment stripper searches it.        *)
(***************************************************************************)
EXTENDS Integers, Sequences, FiniteSets, TLC

VARIABLES frontmatter, skip_tags, only_tags, events, input, result, pc,
          pos, output, inside_comment, inside_codeblock, pass, previous

vars == <<frontmatter, skip_tags, only_tags, events, input, result, pc,
          pos, output, inside_comment, inside_codeblock, pass, previous>>

\* The two flags of the comment stripper, as an invocation leaves them.
Flags(comment, codeblock) ==
    [inside_comment |-> comment, inside_codeblock |-> codeblock]

(***************************************************************************)
(* Bounds of the model.                                                    *)
(***************************************************************************)
\* Longest tag sequence of a document, of the skip list and of the allow list.
MaxTags == 2

\* All sequences over S of length at most n.
SeqsUpTo(S, n) == UNION {[1..k -> S] : k \in 0..n}

\* The elements of a sequence.
Range(s) == {s[i] : i \in DOMAIN s}

(***************************************************************************)
(* serde_yaml::Value, as far as the tag filter looks at it.                *)
(***************************************************************************)
ValueString(s) == [type |-> "String", s |-> s, items |-> <<>>]

ValueNumber(s) == [type |-> "Number", s |-> s, items |-> <<>>]

ValueNull == [type |-> "Null", s |-> "", items |-> <<>>]

ValueMapping == [type |-> "Mapping", s |-> "", items |-> <<>>]

ValueSequence(items) == [type |-> "Sequence", s |-> "", items |-> items]

\* Option::None, the result of frontmatter.get("tags") when the key is absent.
NoValue == [type |-> "None", s |-> "", items |-> <<>>]

\* PostprocessorResult
Continue == "Continue"

StopAndSkipNote == "StopAndSkipNote"

\* The tag names of the configuration; "1" is also the text of a YAML number.
TagNames == {"skip", "publish", "Publish", "1"}

\* The values a document's tags sequence may hold.
TagValues == {ValueString(n) : n \in TagNames} \cup {ValueNumber("1")}

\* The skip lists and allow lists (Vec<String>).
TagLists == SeqsUpTo(TagNames, MaxTags)

\* What frontmatter.get("tags") may return.
TagsEntries ==
    {NoValue, ValueNull, ValueMapping, ValueString("skip"), ValueString("publish")}
        \cup {ValueSequence(t) : t \in SeqsUpTo(TagValues, MaxTags)}

(***************************************************************************)
(* The tag filter.                                                         *)
(***************************************************************************)
\* The variant of filter_by_tags_ that compares tag names ignoring case.
Lower(s) == IF s = "Publish" THEN "publish" ELSE s

filter_by_tags_nocase(tags, skip, only) ==
    LET has(tag) == \E i \in DOMAIN tags :
                        /\ tags[i].type = "String"
                        /\ Lower(tags[i].s) = Lower(tag)
        skipIt  == \E i \in DOMAIN skip : has(skip[i])
        include == only = <<>> \/ \E i \in DOMAIN only : has(only[i])
    IN  IF skipIt \/ ~include THEN StopAndSkipNote ELSE Continue

\* The variant of filter_by_tags_ in which the allow list is tried first.
filter_by_tags_allowfirst(tags, skip, only) ==
    LET contains(v) == \E i \in DOMAIN tags : tags[i] = v
        skipIt  == \E i \in DOMAIN skip : contains(ValueString(skip[i]))
        include == \E i \in DOMAIN only : contains(ValueString(only[i]))
    IN  IF include THEN Continue
        ELSE IF skipIt \/ only # <<>> THEN StopAndSkipNote ELSE Continue

\* fn filter_by_tags_(tags, skip_tags, only_tags)
filter_by_tags_(tags, skip, only) ==
    LET contains(v) == \E i \in DOMAIN tags : tags[i] = v
        skipIt  == \E i \in DOMAIN skip : contains(ValueString(skip[i]))
        include == only = <<>> \/ \E i \in DOMAIN only : contains(ValueString(only[i]))
    IN  IF skipIt \/ ~include THEN StopAndSkipNote ELSE Continue

\* The closure returned by filter_by_tags(skip_tags, only_tags), applied to a
\* context whose frontmatter.get("tags") is `entry`.
filter_by_tags(skip, only, entry) ==
    CASE entry.type = "None"     -> filter_by_tags_(<<>>, skip, only)
      [] entry.type = "Sequence" -> filter_by_tags_(entry.items, skip, only)
      [] OTHER                   -> Continue

(***************************************************************************)
(* A run of the tag filter on one document.                                *)
(***************************************************************************)
InitTags ==
    /\ frontmatter \in [tags : TagsEntries]
    /\ skip_tags \in TagLists
    /\ only_tags \in TagLists
    /\ events = <<>>
    /\ input = <<>>
    /\ result = "none"
    /\ pc = "call"
    /\ pos = 1
    /\ output = <<>>
    /\ inside_comment = FALSE
    /\ inside_codeblock = FALSE
    /\ pass = "none"
    /\ previous = Flags(FALSE, FALSE)

\* The pipeline calls the closure on the document.
FilterByTags ==
    /\ pc = "call"
    /\ result' = filter_by_tags(skip_tags, only_tags, frontmatter.tags)
    /\ pc' = "done"
    /\ pass' = "filter_by_tags"
    /\ UNCHANGED <<frontmatter, skip_tags, only_tags, events, input,
                   pos, output, inside_comment, inside_codeblock, previous>>

NextTags == FilterByTags

SpecTags == InitTags /\ [][NextTags]_vars

(***************************************************************************)
(* Claims about the tag filter (checked under SpecTags).                   *)
(***************************************************************************)
\* The decision function ran: the tags key is absent or holds a sequence.
Decided == pc = "done" /\ frontmatter.tags.type \in {"None", "Sequence"}

\* T: the document's tag set, the string-valued entries of its tags sequence.
DocTags == {v.s : v \in {w \in Range(frontmatter.tags.items) : w.type = "String"}}

Reverse(s) == [i \in 1..Len(s) |-> s[Len(s) + 1 - i]]

\* C1: the decision function returns StopAndSkipNote iff the document's tag set
\* meets the skip list, or the allow list is non-empty and the tag set does not
\* meet it; otherwise Continue.  Names match exactly (case-sensitive), and the
\* order of the entries of the three lists does not change the result.
C1_Decision ==
    Decided =>
        LET S == Range(skip_tags)
            A == Range(only_tags)
            stop == (DocTags \cap S # {}) \/ (A # {} /\ DocTags \cap A = {})
        IN  /\ result = (IF stop THEN StopAndSkipNote ELSE Continue)
            /\ result = filter_by_tags_(Reverse(frontmatter.tags.items),
                                        Reverse(skip_tags), Reverse(only_tags))

\* A document tagged Publish passes a skip list naming publish, and lists in
\* different orders were decided.
C1_Witness ==
    /\ Decided
    /\ "Publish" \in DocTags /\ "publish" \notin DocTags
    /\ skip_tags = <<"publish", "skip">>
    /\ only_tags = <<"1", "Publish">>
    /\ result = Continue

\* C2: a tags value that is present but is no sequence gets the result of a
\* document with no tags key, for every skip list and allow list; so with a
\* non-empty allow list the result is StopAndSkipNote.
C2_NonSequenceAsAbsent ==
    (pc = "done" /\ frontmatter.tags.type \notin {"None", "Sequence"}) =>
        /\ result = filter_by_tags(skip_tags, only_tags, NoValue)
        /\ only_tags # <<>> => result = StopAndSkipNote

\* C3: when the document's tag set holds a tag of the skip list the result is
\* StopAndSkipNote, whatever the allow list holds.
C3_SkipWins ==
    (Decided /\ DocTags \cap Range(skip_tags) # {}) => result = StopAndSkipNote

\* The document holds a skipped tag and another tag that the allow list names.
C3_Witness ==
    /\ Decided
    /\ frontmatter.tags.items = <<ValueString("skip"), ValueString("publish")>>
    /\ skip_tags = <<"skip">>
    /\ only_tags = <<"publish">>
    /\ result = StopAndSkipNote

(***************************************************************************)
(* pulldown_cmark::Event, as far as the postprocessors look at it.         *)
(***************************************************************************)
\* Longest event sequence given to remove_toc.
MaxTocEvents == 4

\* Event::Text(text); text is a sequence of characters.
Text(s) == [kind |-> "Text", tag |-> "", label |-> "", text |-> s]

\* Event::Start(Tag::CodeBlock(CodeBlockKind::Fenced(label)))
StartFenced(l) == [kind |-> "Start", tag |-> "CodeBlockFenced", label |-> l, text |-> <<>>]

\* Event::End(Tag::CodeBlock(CodeBlockKind::Fenced(label)))
EndFenced(l) == [kind |-> "End", tag |-> "CodeBlockFenced", label |-> l, text |-> <<>>]

\* Event::Start(tag) and Event::End(tag) of a tag that carries no label.
StartTag(t) == [kind |-> "Start", tag |-> t, label |-> "", text |-> <<>>]

EndTag(t) == [kind |-> "End", tag |-> t, label |-> "", text |-> <<>>]

SoftBreak == [kind |-> "SoftBreak", tag |-> "", label |-> "", text |-> <<>>]

HardBreak == [kind |-> "HardBreak", tag |-> "", label |-> "", text |-> <<>>]

\* Vec::pop on a non-empty vector.
Pop(v) == SubSeq(v, 1, Len(v) - 1)

(***************************************************************************)
(* The table-of-contents remover.                                          *)
(***************************************************************************)
\* The variant of the loop body that compares labels ignoring case.
remove_toc_event_nocase(out, event) ==
    LET pushed == Append(out, event)
        low == IF event.label = "Toc" THEN "toc" ELSE event.label
    IN  IF event.kind = "Start" /\ event.tag = "CodeBlockFenced"
        THEN IF low # "toc" /\ low # "table-of-contents" THEN pushed ELSE Pop(pushed)
        ELSE IF event.kind = "End" /\ event.tag = "CodeBlockFenced"
        THEN IF low = "toc" /\ low # "table-of-contents" THEN Pop(pushed) ELSE pushed
        ELSE pushed

\* The variant of the loop body that drops the End marker of both labels.
remove_toc_event_symmetric(out, event) ==
    LET pushed == Append(out, event)
    IN  IF event.kind \in {"Start", "End"} /\ event.tag = "CodeBlockFenced"
        THEN IF event.label # "toc" /\ event.label # "table-of-contents"
             THEN pushed
             ELSE Pop(pushed)
        ELSE pushed

\* The variant of the loop body that puts a text in the place of the Start
\* marker it removes.
remove_toc_event_shortcode(out, event) ==
    LET pushed == Append(out, event)
    IN  IF event.kind = "Start" /\ event.tag = "CodeBlockFenced"
        THEN IF event.label # "toc" /\ event.label # "table-of-contents"
             THEN pushed
             ELSE Append(Pop(pushed), Text(<<"a">>))
        ELSE IF event.kind = "End" /\ event.tag = "CodeBlockFenced"
        THEN IF event.label = "toc" /\ event.label # "table-of-contents"
             THEN Pop(pushed)
             ELSE pushed
        ELSE pushed

\* One iteration of the loop of remove_toc: push the event, then match on it.
remove_toc_event(out, event) ==
    LET pushed == Append(out, event)
    IN  IF event.kind = "Start" /\ event.tag = "CodeBlockFenced"
        THEN IF event.label # "toc" /\ event.label # "table-of-contents"
             THEN pushed
             ELSE Pop(pushed)
        ELSE IF event.kind = "End" /\ event.tag = "CodeBlockFenced"
        THEN IF event.label = "toc" /\ event.label # "table-of-contents"
             THEN Pop(pushed)
             ELSE pushed
        ELSE pushed

\* The loop of remove_toc over evs[i..], with `out` the output built so far.
RECURSIVE remove_toc_loop(_, _, _)
remove_toc_loop(evs, i, out) ==
    IF i > Len(evs) THEN out
    ELSE remove_toc_loop(evs, i + 1, remove_toc_event(out, evs[i]))

\* pub fn remove_toc: the new value of *events.
remove_toc(evs) == remove_toc_loop(evs, 1, <<>>)

\* The events of the documents given to remove_toc.
TocEvents ==
    {StartFenced(l) : l \in {"toc", "table-of-contents", "Toc", "rust"}}
        \cup {EndFenced(l) : l \in {"toc", "table-of-contents", "Toc", "rust"}}
        \cup {StartTag("CodeBlockIndented"), EndTag("CodeBlockIndented"),
              Text(<<"a">>)}

InitToc ==
    /\ frontmatter = [tags |-> NoValue]
    /\ skip_tags = <<>>
    /\ only_tags = <<>>
    /\ events \in SeqsUpTo(TocEvents, MaxTocEvents)
    /\ input = events
    /\ result = "none"
    /\ pc = "call"
    /\ pos = 1
    /\ output = <<>>
    /\ inside_comment = FALSE
    /\ inside_codeblock = FALSE
    /\ pass = "none"
    /\ previous = Flags(FALSE, FALSE)

\* The pipeline calls remove_toc on the document.
RemoveToc ==
    /\ pc = "call"
    /\ events' = remove_toc(events)
    /\ result' = Continue
    /\ pc' = "done"
    /\ pass' = "remove_toc"
    /\ UNCHANGED <<frontmatter, skip_tags, only_tags, input,
                   pos, output, inside_comment, inside_codeblock, previous>>

NextToc == RemoveToc

SpecToc == InitToc /\ [][NextToc]_vars

(***************************************************************************)
(* Claims about the table-of-contents remover (checked under SpecToc).     *)
(***************************************************************************)
\* How many times event e occurs in the sequence s.
Count(s, e) == Cardinality({i \in DOMAIN s : s[i] = e})

IsTocMarker(e) == e = StartFenced("toc") \/ e = EndFenced("toc")

KeptBesideToc(e) == ~IsTocMarker(e)

KeptBesideTocAndLongStart(e) ==
    ~IsTocMarker(e) /\ e # StartFenced("table-of-contents")

C10_LongNameAsymmetry ==
    pc = "done" =>
        /\ Count(events, StartFenced("table-of-contents")) = 0
        /\ Count(events, EndFenced("table-of-contents"))
               = Count(input, EndFenced("table-of-contents"))
        /\ \A e \in Range(input) :
              e.kind = "End" =>
                  Count(events, e) = (IF e = EndFenced("toc") THEN 0 ELSE Count(input, e))

\* A well-formed table-of-contents block left its End marker alone in the output.
C10_Witness ==
    /\ pc = "done"
    /\ input = <<StartFenced("table-of-contents"), EndFenced("table-of-contents")>>
    /\ events = <<EndFenced("table-of-contents")>>

(***************************************************************************)
(* The Obsidian comment stripper: text search.                             *)
(***************************************************************************)
\* Longest event sequence given to remove_obsidian_comments.
MaxEvents == 4

\* Longest text of the Text event whose content is enumerated exhaustively.
MaxTextLen == 8

\* The characters of a text: the marker character, another character, and
\* the line feed, which `.` of the regex does not match.
LF == "\n"

Chars == {"%", "a", LF}

\* Whether the marker %% starts at index i of s.
MarkerAt(s, i) == i >= 1 /\ i + 1 <= Len(s) /\ s[i] = "%" /\ s[i + 1] = "%"

\* text.contains("%%")
ContainsMarker(s) == \E i \in 1..Len(s) : MarkerAt(s, i)

\* text.eq(&CowStr::from("%%"))
IsMarker(s) == s = <<"%", "%">>

\* The variant of the regex match that is greedy (%%.*%%).
MatchEndGreedy(s, i) ==
    IF ~MarkerAt(s, i) THEN 0
    ELSE LET closers == {j \in (i + 2)..Len(s) :
                            /\ MarkerAt(s, j)
                            /\ \A k \in (i + 2)..(j - 1) : s[k] # LF}
         IN  IF closers = {} THEN 0
             ELSE (CHOOSE j \in closers : \A k \in closers : j >= k) + 1

\* The regex %%.*?%% anchored at index i of s: the index of the last character
\* of its match, or 0 when it does not match there.  After the opening marker
\* the lazy .*? takes as few characters as possible, none of them a line feed,
\* up to a closing marker.
MatchEnd(s, i) ==
    IF ~MarkerAt(s, i) THEN 0
    ELSE LET closers == {j \in (i + 2)..Len(s) :
                            /\ MarkerAt(s, j)
                            /\ \A k \in (i + 2)..(j - 1) : s[k] # LF}
         IN  IF closers = {} THEN 0
             ELSE (CHOOSE j \in closers : \A k \in closers : j <= k) + 1

\* re.replace_all(text, "") from index `from` on: the text between the
\* successive leftmost, non-overlapping matches.
RECURSIVE ReplaceAllFrom(_, _)
ReplaceAllFrom(s, from) ==
    LET starts == {i \in from..Len(s) : MatchEnd(s, i) # 0}
    IN  IF starts = {} THEN SubSeq(s, from, Len(s))
        ELSE LET i == CHOOSE x \in starts : \A y \in starts : x <= y
             IN  SubSeq(s, from, i - 1) \o ReplaceAllFrom(s, MatchEnd(s, i) + 1)

\* Regex::new(r"%%.*?%%").unwrap().replace_all(text, "").to_string()
ReplaceAll(s) == ReplaceAllFrom(s, 1)

(***************************************************************************)
(* The Obsidian comment stripper: the loop.                                *)
(***************************************************************************)
\* Tag::CodeBlock(_): a fenced or an indented code block.
IsCodeBlockTag(t) == t \in {"CodeBlockFenced", "CodeBlockIndented"}

\* The locals of remove_obsidian_comments.
Locals(out, comment, codeblock) ==
    [output |-> out, inside_comment |-> comment, inside_codeblock |-> codeblock]

\* The variant of the loop body in which the closing marker is not popped.
comments_event_keepcloser(st, event) ==
    LET pushed == Append(st.output, event)
        popped == st.output
    IN  IF event.kind = "Text"
        THEN IF ~ContainsMarker(event.text)
             THEN IF st.inside_comment
                  THEN Locals(popped, st.inside_comment, st.inside_codeblock)
                  ELSE Locals(pushed, st.inside_comment, st.inside_codeblock)
             ELSE IF st.inside_codeblock
             THEN Locals(pushed, st.inside_comment, st.inside_codeblock)
             ELSE IF st.inside_comment
             THEN Locals(pushed, FALSE, st.inside_codeblock)
             ELSE IF ~IsMarker(event.text)
             THEN Locals(Append(popped, Text(ReplaceAll(event.text))),
                         st.inside_comment, st.inside_codeblock)
             ELSE Locals(popped, TRUE, st.inside_codeblock)
        ELSE IF event.kind = "Start" /\ IsCodeBlockTag(event.tag)
        THEN Locals(pushed, st.inside_comment, TRUE)
        ELSE IF event.kind = "End" /\ IsCodeBlockTag(event.tag)
        THEN Locals(pushed, st.inside_comment, FALSE)
        ELSE IF st.inside_comment
        THEN Locals(popped, st.inside_comment, st.inside_codeblock)
        ELSE Locals(pushed, st.inside_comment, st.inside_codeblock)

\* The variant of the loop body that drops code-block markers inside a comment.
comments_event_dropfence(st, event) ==
    LET pushed == Append(st.output, event)
        popped == st.output
    IN  IF event.kind = "Text"
        THEN IF ~ContainsMarker(event.text)
             THEN IF st.inside_comment
                  THEN Locals(popped, st.inside_comment, st.inside_codeblock)
                  ELSE Locals(pushed, st.inside_comment, st.inside_codeblock)
             ELSE IF st.inside_codeblock
             THEN Locals(pushed, st.inside_comment, st.inside_codeblock)
             ELSE IF st.inside_comment
             THEN Locals(popped, FALSE, st.inside_codeblock)
             ELSE IF ~IsMarker(event.text)
             THEN Locals(Append(popped, Text(ReplaceAll(event.text))),
                         st.inside_comment, st.inside_codeblock)
             ELSE Locals(popped, TRUE, st.inside_codeblock)
        ELSE IF event.kind = "Start" /\ IsCodeBlockTag(event.tag)
        THEN Locals(IF st.inside_comment THEN popped ELSE pushed,
                    st.inside_comment, TRUE)
        ELSE IF event.kind = "End" /\ IsCodeBlockTag(event.tag)
        THEN Locals(IF st.inside_comment THEN popped ELSE pushed,
                    st.inside_comment, FALSE)
        ELSE IF st.inside_comment
        THEN Locals(popped, st.inside_comment, st.inside_codeblock)
        ELSE Locals(pushed, st.inside_comment, st.inside_codeblock)

\* The variant of the loop body that rewrites a closing text that holds more
\* than the marker, as it rewrites an inline comment.
comments_event_closerinline(st, event) ==
    LET pushed == Append(st.output, event)
        popped == st.output
    IN  IF event.kind = "Text"
        THEN IF ~ContainsMarker(event.text)
             THEN IF st.inside_comment
                  THEN Locals(popped, st.inside_comment, st.inside_codeblock)
                  ELSE Locals(pushed, st.inside_comment, st.inside_codeblock)
             ELSE IF st.inside_codeblock
             THEN Locals(pushed, st.inside_comment, st.inside_codeblock)
             ELSE IF st.inside_comment /\ IsMarker(event.text)
             THEN Locals(popped, FALSE, st.inside_codeblock)
             ELSE IF st.inside_comment
             THEN Locals(Append(popped, Text(ReplaceAll(event.text))),
                         FALSE, st.inside_codeblock)
             ELSE IF ~IsMarker(event.text)
             THEN Locals(Append(popped, Text(ReplaceAll(event.text))),
                         st.inside_comment, st.inside_codeblock)
             ELSE Locals(popped, TRUE, st.inside_codeblock)
        ELSE IF event.kind = "Start" /\ IsCodeBlockTag(event.tag)
        THEN Locals(pushed, st.inside_comment, TRUE)
        ELSE IF event.kind = "End" /\ IsCodeBlockTag(event.tag)
        THEN Locals(pushed, st.inside_comment, FALSE)
        ELSE IF st.inside_comment
        THEN Locals(popped, st.inside_comment, st.inside_codeblock)
        ELSE Locals(pushed, st.inside_comment, st.inside_codeblock)

\* The variant of the loop body that looks at inside_comment before it looks
\* at inside_codeblock, so that a marker in a code block closes a comment.
comments_event_commentfirst(st, event) ==
    LET pushed == Append(st.output, event)
        popped == st.output
    IN  IF event.kind = "Text"
        THEN IF ~ContainsMarker(event.text)
             THEN IF st.inside_comment
                  THEN Locals(popped, st.inside_comment, st.inside_codeblock)
                  ELSE Locals(pushed, st.inside_comment, st.inside_codeblock)
             ELSE IF st.inside_comment
             THEN Locals(popped, FALSE, st.inside_codeblock)
             ELSE IF st.inside_codeblock
             THEN Locals(pushed, st.inside_comment, st.inside_codeblock)
             ELSE IF ~IsMarker(event.text)
             THEN Locals(Append(popped, Text(ReplaceAll(event.text))),
                         st.inside_comment, st.inside_codeblock)
             ELSE Locals(popped, TRUE, st.inside_codeblock)
        ELSE IF event.kind = "Start" /\ IsCodeBlockTag(event.tag)
        THEN Locals(pushed, st.inside_comment, TRUE)
        ELSE IF event.kind = "End" /\ IsCodeBlockTag(event.tag)
        THEN Locals(pushed, st.inside_comment, FALSE)
        ELSE IF st.inside_comment
        THEN Locals(popped, st.inside_comment, st.inside_codeblock)
        ELSE Locals(pushed, st.inside_comment, st.inside_codeblock)

\* One iteration of the loop of remove_obsidian_comments on the locals st:
\* push the event, then match on it.
comments_event(st, event) ==
    LET pushed == Append(st.output, event)
        popped == st.output
    IN  IF event.kind = "Text"
        THEN IF ~ContainsMarker(event.text)
             THEN IF st.inside_comment
                  THEN Locals(popped, st.inside_comment, st.inside_codeblock)
                  ELSE Locals(pushed, st.inside_comment, st.inside_codeblock)
             ELSE IF st.inside_codeblock
             THEN Locals(pushed, st.inside_comment, st.inside_codeblock)
             ELSE IF st.inside_comment
             THEN Locals(popped, FALSE, st.inside_codeblock)
             ELSE IF ~IsMarker(event.text)
             THEN Locals(Append(popped, Text(ReplaceAll(event.text))),
                         st.inside_comment, st.inside_codeblock)
             ELSE Locals(popped, TRUE, st.inside_codeblock)
        ELSE IF event.kind = "Start" /\ IsCodeBlockTag(event.tag)
        THEN Locals(pushed, st.inside_comment, TRUE)
        ELSE IF event.kind = "End" /\ IsCodeBlockTag(event.tag)
        THEN Locals(pushed, st.inside_comment, FALSE)
        ELSE IF st.inside_comment
        THEN Locals(popped, st.inside_comment, st.inside_codeblock)
        ELSE Locals(pushed, st.inside_comment, st.inside_codeblock)

\* The locals after the loop has run over evs[i..], from the locals st.
RECURSIVE comments_loop(_, _, _)
comments_loop(evs, i, st) ==
    IF i > Len(evs) THEN st
    ELSE comments_loop(evs, i + 1, comments_event(st, evs[i]))

\* The locals of a fresh invocation after its loop has run over all of evs.
LocalsAfter(evs) == comments_loop(evs, 1, Locals(<<>>, FALSE, FALSE))

\* pub fn remove_obsidian_comments: the new value of *events.
remove_obsidian_comments(evs) == LocalsAfter(evs).output

\* The events of the documents given to remove_obsidian_comments.
InlineText == <<"%", "%", "a", "%", "%", "a">>

CommentEvents ==
    {Text(<<"%", "%">>), Text(<<"a">>), Text(InlineText),
     StartFenced("rust"), EndFenced("rust"),
     StartTag("Paragraph"), EndTag("Paragraph")}

\* Documents with one Text event of any content: first in the document, in
\* a code block, or after a standalone marker.
TextDocs ==
    {pre \o <<Text(s), Text(<<"a">>)>> :
        pre \in {<<>>, <<StartFenced("rust")>>, <<Text(<<"%", "%">>)>>},
        s \in SeqsUpTo(Chars, MaxTextLen)}

CommentDocs == SeqsUpTo(CommentEvents, MaxEvents) \cup TextDocs

InitComments ==
    /\ frontmatter = [tags |-> NoValue]
    /\ skip_tags = <<>>
    /\ only_tags = <<>>
    /\ events \in CommentDocs
    /\ input = events
    /\ result = "none"
    /\ pc = "call"
    /\ pos = 1
    /\ output = <<>>
    /\ inside_comment = FALSE
    /\ inside_codeblock = FALSE
    /\ pass = "none"
    /\ previous = Flags(FALSE, FALSE)

\* The variant of the entry that keeps the flags an earlier invocation left.
CommentsEnterStale ==
    /\ pc = "call"
    /\ output' = <<>>
    /\ pos' = 1
    /\ pc' = "loop"
    /\ pass' = "remove_obsidian_comments"
    /\ UNCHANGED <<frontmatter, skip_tags, only_tags, events, input, result,
                   inside_comment, inside_codeblock, previous>>

\* The pipeline calls remove_obsidian_comments: the locals are initialised.
CommentsEnter ==
    /\ pc = "call"
    /\ output' = <<>>
    /\ inside_comment' = FALSE
    /\ inside_codeblock' = FALSE
    /\ pos' = 1
    /\ pc' = "loop"
    /\ pass' = "remove_obsidian_comments"
    /\ UNCHANGED <<frontmatter, skip_tags, only_tags, events, input, result,
                   previous>>

\* One iteration of `for event in &mut *events`.
CommentsEvent ==
    /\ pc = "loop"
    /\ pos <= Len(events)
    /\ LET st == comments_event(Locals(output, inside_comment, inside_codeblock),
                                events[pos])
       IN  /\ output' = st.output
           /\ inside_comment' = st.inside_comment
           /\ inside_codeblock' = st.inside_codeblock
    /\ pos' = pos + 1
    /\ UNCHANGED <<frontmatter, skip_tags, only_tags, events, input, result, pc,
                   pass, previous>>

\* The variant of the return that asks to skip a note whose comment is open.
CommentsExitSkip ==
    /\ pc = "loop"
    /\ pos > Len(events)
    /\ events' = output
    /\ result' = (IF inside_comment THEN StopAndSkipNote ELSE Continue)
    /\ pc' = "done"
    /\ UNCHANGED <<frontmatter, skip_tags, only_tags, input,
                   pos, output, inside_comment, inside_codeblock, pass, previous>>

\* The loop is over: *events = output, and the pass returns Continue.
CommentsExit ==
    /\ pc = "loop"
    /\ pos > Len(events)
    /\ events' = output
    /\ result' = Continue
    /\ pc' = "done"
    /\ UNCHANGED <<frontmatter, skip_tags, only_tags, input,
                   pos, output, inside_comment, inside_codeblock, pass, previous>>

\* The pass is invoked again, on the events the earlier invocation left as
\* the next document; `previous` keeps the flags that invocation ended with.
CommentsAgain ==
    /\ pc = "done"
    /\ pass = "remove_obsidian_comments"
    /\ input' = events
    /\ previous' = Flags(inside_comment, inside_codeblock)
    /\ result' = "none"
    /\ pc' = "call"
    /\ UNCHANGED <<frontmatter, skip_tags, only_tags, events,
                   pos, output, inside_comment, inside_codeblock, pass>>

NextComments == CommentsEnter \/ CommentsEvent \/ CommentsExit \/ CommentsAgain

SpecComments == InitComments /\ [][NextComments]_vars

(***************************************************************************)
(* Claims about the comment stripper (checked under SpecComments).         *)
(***************************************************************************)
IsCodeBlockStart(e) == e.kind = "Start" /\ IsCodeBlockTag(e.tag)

IsCodeBlockEnd(e) == e.kind = "End" /\ IsCodeBlockTag(e.tag)

IsMarkerText(e) == e.kind = "Text" /\ ContainsMarker(e.text)

\* The first n events of the input.
Prefix(n) == SubSeq(input, 1, n)

\* Whether the Start and End markers of evs[i..] are matched and nested, with
\* `stack` the markers that are open at i.
RECURSIVE Nested(_, _, _)
Nested(evs, i, stack) ==
    IF i > Len(evs) THEN stack = <<>>
    ELSE IF evs[i].kind = "Start" THEN Nested(evs, i + 1, Append(stack, evs[i]))
    ELSE IF evs[i].kind = "End"
    THEN /\ stack # <<>>
         /\ stack[Len(stack)].tag = evs[i].tag
         /\ stack[Len(stack)].label = evs[i].label
         /\ Nested(evs, i + 1, Pop(stack))
    ELSE Nested(evs, i + 1, stack)

WellNested(evs) == Nested(evs, 1, <<>>)

\* C4: when the Start and End markers of the input are properly matched and
\* nested, so are those of the output of the comment stripper.
C4_NestingPreserved ==
    (pc = "done" /\ WellNested(input)) => WellNested(events)

\* Event k of evs lies between a code-block Start marker and the following
\* code-block End marker.
InCodeBlock(evs, k) ==
    /\ \E j \in 1..(k - 1) :
          /\ IsCodeBlockStart(evs[j])
          /\ \A m \in (j + 1)..(k - 1) : ~IsCodeBlockEnd(evs[m])
    /\ \E j \in (k + 1)..Len(evs) : IsCodeBlockEnd(evs[j])

\* C5: every Text event that lies between a code-block Start marker and the
\* following code-block End marker is put unchanged into the output, whatever
\* it contains and whatever precedes the code block.
C5_CodeBlockTextKept ==
    [][(/\ pc = "loop"
        /\ pos <= Len(events)
        /\ events[pos].kind = "Text"
        /\ InCodeBlock(events, pos))
          => output' = Append(output, events[pos])]_vars

\* Event k of the input is a standalone marker met while no comment is open
\* and outside a code block.
OpensComment(k) ==
    /\ input[k] = Text(<<"%", "%">>)
    /\ ~LocalsAfter(Prefix(k - 1)).inside_comment
    /\ ~LocalsAfter(Prefix(k - 1)).inside_codeblock

\* C6: when a standalone marker opens a comment that no later event closes,
\* every event after it is dropped: the output is the output produced for the
\* events before the opener.
C6_UnterminatedDropsRest ==
    pc = "done" =>
        \A k \in 1..Len(input) :
            (/\ OpensComment(k)
             /\ \A j \in k..Len(input) : LocalsAfter(Prefix(j)).inside_comment)
                => events = remove_obsidian_comments(Prefix(k - 1))

\* Events k..m of the input are a comment: an opener, events that are neither
\* code-block markers nor Text holding the marker, and a Text holding the marker.
IsComment(k, m) ==
    /\ k < m
    /\ OpensComment(k)
    /\ \A j \in (k + 1)..(m - 1) :
          /\ ~IsCodeBlockStart(input[j])
          /\ ~IsCodeBlockEnd(input[j])
          /\ ~IsMarkerText(input[j])
    /\ IsMarkerText(input[m])

\* C7: a comment of several events is removed whole: once its closer has been
\* processed the output is what it was before the opener and no comment is
\* open, and the output of the pass is the output for the input without the
\* comment.
C7_CommentRemovedWhole ==
    \A k \in 1..Len(input) : \A m \in (k + 1)..Len(input) :
        IsComment(k, m) =>
            /\ (pc = "loop" /\ pos = m + 1) =>
                   /\ output = remove_obsidian_comments(Prefix(k - 1))
                   /\ ~inside_comment
                   /\ ~inside_codeblock
            /\ pc = "done" =>
                   events = remove_obsidian_comments(
                                Prefix(k - 1) \o SubSeq(input, m + 1, Len(input)))

\* A comment of three events was removed and the text after it was kept.
C7_Witness ==
    /\ pc = "done"
    /\ input = <<Text(<<"%", "%">>), StartTag("Paragraph"), Text(InlineText),
                 Text(<<"a">>)>>
    /\ IsComment(1, 3)
    /\ events = <<Text(<<"a">>)>>

\* Whether s[i..j] is a match of %%.*?%% as a whole: an opening marker, no
\* line feed, a closing marker.
IsSpan(s, i, j) ==
    /\ MarkerAt(s, i)
    /\ j >= i + 3
    /\ MarkerAt(s, j - 1)
    /\ \A k \in (i + 2)..(j - 2) : s[k] # LF

\* The indexes of s covered by the leftmost non-greedy spans found from p on.
RECURSIVE SpanIndexes(_, _)
SpanIndexes(s, p) ==
    LET spans == {ij \in (p..Len(s)) \X (p..Len(s)) : IsSpan(s, ij[1], ij[2])}
    IN  IF spans = {} THEN {}
        ELSE LET first == CHOOSE x \in spans :
                              \A y \in spans :
                                  \/ x[1] < y[1]
                                  \/ (x[1] = y[1] /\ x[2] <= y[2])
             IN  (first[1]..first[2]) \cup SpanIndexes(s, first[2] + 1)

\* s without its leftmost non-greedy %%...%% spans.
StripSpans(s) ==
    LET keep == (1..Len(s)) \ SpanIndexes(s, 1)
        nth(n) == CHOOSE i \in keep : Cardinality({x \in keep : x <= i}) = n
    IN  [n \in 1..Cardinality(keep) |-> s[nth(n)]]

\* C8: a Text event that holds the marker and is not the marker alone, met
\* while no comment is open and outside a code block, puts into the output,
\* at its position, one Text event holding the text without its leftmost
\* non-greedy %%...%% spans, and the comment stays closed.
C8_InlineComment ==
    [][(/\ pc = "loop"
        /\ pos <= Len(events)
        /\ IsMarkerText(events[pos])
        /\ ~IsMarker(events[pos].text)
        /\ ~inside_comment
        /\ ~inside_codeblock)
          => /\ output' = Append(output, Text(StripSpans(events[pos].text)))
             /\ inside_comment' = FALSE
             /\ inside_codeblock' = FALSE]_vars

\* A text made of two spans became the empty text, and the event that follows
\* it was kept.
C8_Witness ==
    /\ pc = "done"
    /\ input = <<Text(<<"%", "%", "%", "%", "%", "%", "%", "%">>), Text(<<"a">>)>>
    /\ events = <<Text(<<>>), Text(<<"a">>)>>

(***************************************************************************)
(* The line-break normalizer.                                              *)
(***************************************************************************)
\* Longest event sequence given to softbreaks_to_hardbreaks.
MaxBreakEvents == 4

\* The variant of the pass that also turns hard breaks into soft breaks.
softbreaks_to_hardbreaks_toggle(evs) ==
    [i \in 1..Len(evs) |->
        IF evs[i] = SoftBreak THEN HardBreak
        ELSE IF evs[i] = HardBreak THEN SoftBreak
        ELSE evs[i]]

\* The variant of the pass that leaves the loop after its first replacement.
softbreaks_to_hardbreaks_first(evs) ==
    [i \in 1..Len(evs) |->
        IF evs[i] = SoftBreak /\ \A j \in 1..(i - 1) : evs[j] # SoftBreak
        THEN HardBreak
        ELSE evs[i]]

\* pub fn softbreaks_to_hardbreaks: the value of *events after the loop, which
\* assigns Event::HardBreak to every element that equals Event::SoftBreak.
softbreaks_to_hardbreaks(evs) ==
    [i \in 1..Len(evs) |-> IF evs[i] = SoftBreak THEN HardBreak ELSE evs[i]]

\* The events of the documents given to softbreaks_to_hardbreaks.
BreakEvents ==
    {SoftBreak, HardBreak, Text(<<"a">>), StartTag("Paragraph"), EndTag("Paragraph")}

InitBreaks ==
    /\ frontmatter = [tags |-> NoValue]
    /\ skip_tags = <<>>
    /\ only_tags = <<>>
    /\ events \in SeqsUpTo(BreakEvents, MaxBreakEvents)
    /\ input = events
    /\ result = "none"
    /\ pc = "call"
    /\ pos = 1
    /\ output = <<>>
    /\ inside_comment = FALSE
    /\ inside_codeblock = FALSE
    /\ pass = "none"
    /\ previous = Flags(FALSE, FALSE)

\* The pipeline calls softbreaks_to_hardbreaks on the document.
SoftbreaksToHardbreaks ==
    /\ pc = "call"
    /\ events' = softbreaks_to_hardbreaks(events)
    /\ result' = Continue
    /\ pc' = "done"
    /\ pass' = "softbreaks_to_hardbreaks"
    /\ UNCHANGED <<frontmatter, skip_tags, only_tags, input,
                   pos, output, inside_comment, inside_codeblock, previous>>

\* The pass is applied a second time, to the events the first call left.
SoftbreaksAgain ==
    /\ pc = "done"
    /\ pass = "softbreaks_to_hardbreaks"
    /\ events' = softbreaks_to_hardbreaks(events)
    /\ result' = Continue
    /\ pc' = "again"
    /\ UNCHANGED <<frontmatter, skip_tags, only_tags, input,
                   pos, output, inside_comment, inside_codeblock, pass, previous>>

NextBreaks == SoftbreaksToHardbreaks \/ SoftbreaksAgain

SpecBreaks == InitBreaks /\ [][NextBreaks]_vars

(***************************************************************************)
(* Claims about the line-break normalizer (checked under SpecBreaks).      *)
(***************************************************************************)
IsBreak(e) == e = SoftBreak \/ e = HardBreak

\* C11: the output of the line-break normalizer has the length of the input,
\* holds HardBreak at each index where the input holds SoftBreak or HardBreak
\* and the input event at every other index, holds no SoftBreak, and the pass
\* returns Continue.
C11_SoftBreaksReplaced ==
    pc = "done" =>
        /\ Len(events) = Len(input)
        /\ \A i \in 1..Len(input) :
              events[i] = (IF IsBreak(input[i]) THEN HardBreak ELSE input[i])
        /\ \A i \in 1..Len(events) : events[i] # SoftBreak
        /\ result = Continue

\* A document with a soft break, a hard break and other events went through.
C11_Witness ==
    /\ pc = "done"
    /\ input = <<StartTag("Paragraph"), SoftBreak, HardBreak, EndTag("Paragraph")>>
    /\ events = <<StartTag("Paragraph"), HardBreak, HardBreak, EndTag("Paragraph")>>

\* C12: a second application of the line-break normalizer changes nothing:
\* applying it twice gives the sequence that applying it once gives.
C12_Idempotent ==
    [][(pc = "done" /\ pc' = "again") => events' = events]_vars

\* The pass ran twice on a document with two soft breaks.
C12_Witness ==
    /\ pc = "again"
    /\ input = <<SoftBreak, Text(<<"a">>), SoftBreak, HardBreak>>
    /\ events = <<HardBreak, Text(<<"a">>), HardBreak, HardBreak>>

\* C14: each invocation of the comment stripper starts with an empty output
\* and both flags false, so the output for a document is the output of a fresh
\* run over that document's events, whatever an earlier invocation ended with.
C14_StateIsLocal ==
    /\ (pc = "loop" /\ pos = 1) =>
           /\ output = <<>>
           /\ ~inside_comment
           /\ ~inside_codeblock
    /\ pc = "done" => events = remove_obsidian_comments(input)

\* A document was stripped after an invocation that ended inside a comment
\* and inside a code block.
C14_Witness ==
    /\ pc = "done"
    /\ previous = Flags(TRUE, TRUE)
    /\ input = <<Text(<<"a">>), StartFenced("rust")>>
    /\ events = <<Text(<<"a">>), StartFenced("rust")>>

\* The event that the loop of the comment stripper is about to process.
AtEvent == pc = "loop" /\ pos <= Len(events)

IsCodeBlockMarker(e) == IsCodeBlockStart(e) \/ IsCodeBlockEnd(e)

\* C15: a code-block Start or End marker met while a comment is open is
\* dropped from the output, inside_codeblock flips on it, and inside_comment
\* is not reset by it.
C15_FenceDroppedInComment ==
    [][(AtEvent /\ inside_comment /\ IsCodeBlockMarker(events[pos]))
          => /\ output' = output
             /\ inside_codeblock' = IsCodeBlockStart(events[pos])
             /\ inside_comment' = inside_comment]_vars

\* C16: the comment stripper puts every code-block Start marker and every
\* code-block End marker into its output, in every state, and sets
\* inside_codeblock to true on a Start marker and to false on an End marker;
\* so the output holds the code-block markers of the input.
C16_CodeBlockMarkersKept ==
    /\ [](pc = "done" =>
             SelectSeq(events, IsCodeBlockMarker) = SelectSeq(input, IsCodeBlockMarker))
    /\ [][(AtEvent /\ IsCodeBlockMarker(events[pos]))
             => /\ output' = Append(output, events[pos])
                /\ inside_codeblock' = IsCodeBlockStart(events[pos])]_vars

\* The markers of a code block that follows an open comment stayed in the output.
C16_Witness ==
    /\ pc = "done"
    /\ input = <<Text(<<"%", "%">>), StartFenced("rust"), Text(<<"a">>),
                 EndFenced("rust")>>
    /\ events = <<StartFenced("rust"), EndFenced("rust")>>
    /\ inside_comment
    /\ ~inside_codeblock

\* C17: while a comment is open and the stripper is outside a code block, a
\* Text event that holds the marker anywhere closes the comment: the whole
\* event is dropped, whatever else it holds, inside_comment becomes false, and
\* the event is neither rewritten nor opens a new comment.
C17_CloserDroppedWhole ==
    [][(/\ AtEvent
        /\ IsMarkerText(events[pos])
        /\ inside_comment
        /\ ~inside_codeblock)
          => /\ output' = output
             /\ inside_comment' = FALSE
             /\ inside_codeblock' = FALSE]_vars

\* A closer that holds a complete pair and text after it was dropped whole,
\* and the text after it was kept.
C17_Witness ==
    /\ pc = "done"
    /\ input = <<Text(<<"%", "%">>), Text(InlineText), Text(<<"a">>)>>
    /\ events = <<Text(<<"a">>)>>
    /\ ~inside_comment

\* C18: a Text event that holds the marker and is met inside a code block is
\* put unchanged into the output and changes neither flag, whatever
\* inside_comment is; and the End marker of the code block leaves
\* inside_comment as it is, so a comment opened before the code block is still
\* open after it.
C18_MarkerLiteralInCodeBlock ==
    [][/\ (AtEvent /\ IsMarkerText(events[pos]) /\ inside_codeblock)
           => /\ output' = Append(output, events[pos])
              /\ inside_comment' = inside_comment
              /\ inside_codeblock' = TRUE
       /\ (AtEvent /\ IsCodeBlockEnd(events[pos]))
           => inside_comment' = inside_comment]_vars

\* A comment opened before a code block that holds the marker is still open
\* after the code block, whose marker text is in the output.
C18_Witness ==
    /\ pc = "done"
    /\ input = <<Text(<<"%", "%">>), StartFenced("rust"), Text(InlineText),
                 EndFenced("rust")>>
    /\ events = <<StartFenced("rust"), Text(InlineText), EndFenced("rust")>>
    /\ inside_comment

(***************************************************************************)
(* One document given to one of the four passes.                           *)
(***************************************************************************)
\* Longest event sequence of a document that any pass may be given.
MaxPipelineEvents == 3

PipelineEvents ==
    {Text(<<"%", "%">>), Text(<<"a">>), Text(InlineText), SoftBreak,
     StartFenced("rust"), EndFenced("rust"),
     StartFenced("toc"), EndFenced("toc"), StartFenced("table-of-contents")}

PipelineTags == {NoValue, ValueSequence(<<ValueString("skip")>>)}

Init ==
    /\ frontmatter \in [tags : PipelineTags]
    /\ skip_tags \in {<<>>, <<"skip">>}
    /\ only_tags \in {<<>>, <<"publish">>}
    /\ events \in SeqsUpTo(PipelineEvents, MaxPipelineEvents)
    /\ input = events
    /\ result = "none"
    /\ pc = "call"
    /\ pos = 1
    /\ output = <<>>
    /\ inside_comment = FALSE
    /\ inside_codeblock = FALSE
    /\ pass = "none"
    /\ previous = Flags(FALSE, FALSE)

Next ==
    \/ SoftbreaksToHardbreaks
    \/ FilterByTags
    \/ RemoveToc
    \/ CommentsEnter
    \/ CommentsEvent
    \/ CommentsExit

Spec == Init /\ [][Next]_vars

(***************************************************************************)
(* Claims about all passes (checked under Spec).                           *)
(***************************************************************************)
\* Whether the characters s[i..] occur, in their order, among t[j..].
RECURSIVE CharsEmbed(_, _, _, _)
CharsEmbed(s, i, t, j) ==
    IF i > Len(s) THEN TRUE
    ELSE IF j > Len(t) THEN FALSE
    ELSE IF s[i] = t[j] THEN CharsEmbed(s, i + 1, t, j + 1)
    ELSE CharsEmbed(s, i, t, j + 1)

\* Output event o is input event e as a pass may keep it: the same event, or,
\* after the comment stripper, a Text holding the marker whose content was
\* shortened.
KeptAs(o, e) ==
    \/ o = e
    \/ /\ pass = "remove_obsidian_comments"
       /\ IsMarkerText(e)
       /\ o.kind = "Text"
       /\ Len(o.text) <= Len(e.text)
       /\ CharsEmbed(o.text, 1, e.text, 1)

\* Whether the events out[i..] occur, in their order, among inp[j..].
RECURSIVE EventsEmbed(_, _, _, _)
EventsEmbed(out, i, inp, j) ==
    IF i > Len(out) THEN TRUE
    ELSE IF j > Len(inp) THEN FALSE
    ELSE IF KeptAs(out[i], inp[j]) THEN EventsEmbed(out, i + 1, inp, j + 1)
    ELSE EventsEmbed(out, i, inp, j + 1)

C19_OnlyTagFilterSkips ==
    pc = "done" =>
        /\ pass \in {"softbreaks_to_hardbreaks", "remove_toc",
                     "remove_obsidian_comments"} => result = Continue
        /\ pass = "filter_by_tags" =>
               /\ events = input
               /\ result \in {Continue, StopAndSkipNote}
        /\ result = StopAndSkipNote => pass = "filter_by_tags"

\* The tag filter asked to skip a document whose events the other passes
\* would change, and left the events alone.
C19_Witness ==
    /\ pc = "done"
    /\ pass = "filter_by_tags"
    /\ result = StopAndSkipNote
    /\ input = <<SoftBreak, StartFenced("toc"), Text(<<"%", "%">>)>>
    /\ events = input

====
